---- MODULE Spec2Model ----
(***************************************************************************)
(* Model of calculator.py: the SafeExpressionEvaluator (tokenizer and      *)
(* two-stack evaluator) and the Calculator's input/history state.          *)
(*                                                                         *)
(* Strings are sequences of one-character strings.  Characters outside     *)
(* ASCII are written by code point: "U+0663" is ARABIC-INDIC DIGIT THREE,  *)
(* a character for which str.isdigit() is true and which float() reads as  *)
(* 3.  The glyphs of the operator keys are, in this source, strings of two *)
(* or three code points each ("U+00C3" "U+00B7" for the division key), and *)
(* are kept as such.                                                       *)
(*                                                                         *)
(* A float is a record [s, n, d, rep]: sign s (1 or -1), magnitude n/d in  *)
(* lowest terms.  The sign is kept apart from the magnitude so that 0.0    *)
(* and -0.0 are different values, as they are in binary64.  Arithmetic is  *)
(* done on the rationals; rep records whether the float is known to be     *)
(* that rational, and str() is modelled only where it is.                  *)
(***************************************************************************)
EXTENDS Integers, Sequences, FiniteSets, TLC

VARIABLES
    expression,     \* evaluate: its argument
    pc,             \* evaluate: position of the call
    tokens,         \* evaluate: the list returned by _tokenize
    result,         \* evaluate: the value returned or the exception raised
    output_queue,   \* _parse_expression: its local list of floats
    operator_stack, \* _parse_expression: its local list of operators
    pos,            \* _parse_expression: index of the token the for loop is at
    previous,       \* the caller: how the call before this one ended
    current_input,  \* Calculator.current_input
    display_text,   \* Calculator.display_text (StringVar)
    history_text,   \* Calculator.history_text (StringVar)
    history,        \* Calculator.history
    history_index,  \* Calculator.history_index
    format_arg,     \* _format_result: its argument
    format_pc,      \* _format_result: position of the call
    formatted,      \* _format_result: the string returned or the exception raised
    reformatted     \* _format_result of float(formatted)

evalVars == <<expression, pc, tokens, result>>
parseVars == <<output_queue, operator_stack, pos, previous>>
uiVars == <<current_input, display_text, history_text, history, history_index>>
formatVars == <<format_arg, format_pc, formatted, reformatted>>
vars == <<expression, pc, tokens, result, output_queue, operator_stack, pos, previous,
          current_input, display_text, history_text, history, history_index,
          format_arg, format_pc, formatted, reformatted>>

----------------------------------------------------------------------------
(* Bounds *)

MaxLen == 5         \* longest argument given to evaluate
MaxExtra == 1       \* most characters of an argument outside [0-9.+-*/]
MaxInput == 5       \* most characters the keys put into current_input
MaxChars == 6       \* most characters in current_input and the history together
MaxFraction == 3    \* most decimals of a result that str() is modelled for
MaxCallLen == 3     \* longest argument of a call in a sequence of calls
MaxNumerator == 30  \* largest numerator of a float given to _format_result

----------------------------------------------------------------------------
(* Characters *)

AsciiDigits == {"0", "1", "2", "3", "4", "5", "6", "7", "8", "9"}
UnicodeDigits == {"U+0663"}

\* the characters of the arguments given to evaluate
InputDigits == {"0", "2", "8"}
ExtraChars == {" ", "\t"} \cup UnicodeDigits
CoreChars == InputDigits \cup {".", "+", "-", "*", "/"}
CallChars == {"0", "2", "+", "/", "a"}

\* str.isdigit()
isdigit(char) == char \in AsciiDigits \cup UnicodeDigits

DigitChars == <<"0", "1", "2", "3", "4", "5", "6", "7", "8", "9">>

\* the value float() gives a decimal digit
DigitValue(char) ==
    IF char = "U+0663" THEN 3
    ELSE (CHOOSE k \in 1..10 : DigitChars[k] = char) - 1

----------------------------------------------------------------------------
(* Floats *)

RECURSIVE GCD(_, _)
GCD(a, b) == IF b = 0 THEN a ELSE GCD(b, a % b)

RECURSIVE IsPowerOfTwo(_)
IsPowerOfTwo(d) == d = 1 \/ (d > 1 /\ d % 2 = 0 /\ IsPowerOfTwo(d \div 2))

\* The float nearest to s*n/d.  rep tells how the float stands to the
\* rational: "exact" (a binary fraction, held exactly), "rounded" (the
\* nearest float to it), "unknown" (computed from rounded operands, so
\* possibly an ulp or more away).
Float(s, n, d) ==
    IF n = 0 THEN [s |-> s, n |-> 0, d |-> 1, rep |-> "exact"]
    ELSE LET g == GCD(n, d)
         IN  [s |-> s, n |-> n \div g, d |-> d \div g,
              rep |-> IF IsPowerOfTwo(d \div g) THEN "exact" ELSE "rounded"]

\* the result v of an operation on a and b
Computed(a, b, v) ==
    IF a.rep = "exact" /\ b.rep = "exact" THEN v ELSE [v EXCEPT !.rep = "unknown"]

\* inf and -inf (float() of 309 digits or more), and nan (inf + -inf): the
\* floats that are no rational, marked by the denominator 0
Infinity(s) == [s |-> s, n |-> 1, d |-> 0, rep |-> "exact"]
NaN == [s |-> 1, n |-> 0, d |-> 0, rep |-> "exact"]

\* a value standing for "no float": the slot of a result that is an exception
NoValue == [s |-> 0, n |-> 0, d |-> 1, rep |-> "unknown"]

Neg(a) == [a EXCEPT !.s = -a.s]

\* float.__eq__: 0.0 == -0.0
NumEq(a, b) == a.n = b.n /\ a.d = b.d /\ (a.n = 0 \/ a.s = b.s)

\* operator.add
Add(a, b) ==
    LET t == a.s * a.n * b.d + b.s * b.n * a.d
    IN  Computed(a, b,
            IF t = 0
            THEN Float(IF a.n = 0 /\ b.n = 0 /\ a.s = -1 /\ b.s = -1 THEN -1 ELSE 1, 0, 1)
            ELSE Float(IF t < 0 THEN -1 ELSE 1, IF t < 0 THEN -t ELSE t, a.d * b.d))

\* operator.sub
Sub(a, b) == Add(a, Neg(b))

\* operator.mul
Mul(a, b) == Computed(a, b, Float(a.s * b.s, a.n * b.n, a.d * b.d))

\* operator.truediv on floats, for a divisor that is not zero
Quot(a, b) == Computed(a, b, Float(a.s * b.s, a.n * b.d, a.d * b.n))

----------------------------------------------------------------------------
(* Outcomes of a call: a returned float or a raised exception *)

Returned(v) == [type |-> "return", msg |-> <<>>, value |-> v]
Raised(type, msg) == [type |-> type, msg |-> msg, value |-> NoValue]
NoResult == [type |-> "none", msg |-> <<>>, value |-> NoValue]

----------------------------------------------------------------------------
(* float(token) *)

RECURSIVE DigitsToNat(_)
DigitsToNat(digits) ==
    IF digits = <<>> THEN 0
    ELSE DigitsToNat(SubSeq(digits, 1, Len(digits) - 1)) * 10
         + DigitValue(digits[Len(digits)])

RECURSIVE Pow10(_)
Pow10(k) == IF k = 0 THEN 1 ELSE 10 * Pow10(k - 1)

\* to_float with a fault: every sign after the first is skipped, so that
\* "--5" is read as -5.0
to_float_SignsSkipped(token) ==
    LET lead == CHOOSE k \in 0..Len(token) :
                    /\ \A m \in 1..k : token[m] \in {"-", "+"}
                    /\ k < Len(token) => token[k + 1] \notin {"-", "+"}
        body == SubSeq(token, lead + 1, Len(token))
        dots == {k \in 1..Len(body) : body[k] = "."}
        digits == SelectSeq(body, isdigit)
        wellFormed == /\ \A k \in 1..Len(body) : isdigit(body[k]) \/ body[k] = "."
                      /\ Cardinality(dots) <= 1
                      /\ digits # <<>>
        fraction == IF dots = {} THEN 0
                    ELSE Len(body) - (CHOOSE k \in dots : TRUE)
    IN  IF wellFormed
        THEN Returned(Float(IF lead > 0 /\ token[1] = "-" THEN -1 ELSE 1,
                            DigitsToNat(digits), Pow10(fraction)))
        ELSE Raised("ValueError", <<"could not convert string to float: ">> \o token)

\* float(): an optional sign, then decimal digits with at most one '.',
\* at least one digit in all; anything else raises ValueError
to_float(token) ==
    LET signed == token # <<>> /\ token[1] \in {"-", "+"}
        body == IF signed THEN Tail(token) ELSE token
        dots == {k \in 1..Len(body) : body[k] = "."}
        digits == SelectSeq(body, isdigit)
        wellFormed == /\ \A k \in 1..Len(body) : isdigit(body[k]) \/ body[k] = "."
                      /\ Cardinality(dots) <= 1
                      /\ digits # <<>>
        fraction == IF dots = {} THEN 0
                    ELSE Len(body) - (CHOOSE k \in dots : TRUE)
    IN  IF wellFormed
        THEN Returned(Float(IF signed /\ token[1] = "-" THEN -1 ELSE 1,
                            DigitsToNat(digits), Pow10(fraction)))
        ELSE Raised("ValueError", <<"could not convert string to float: ">> \o token)

----------------------------------------------------------------------------
(* SafeExpressionEvaluator *)

\* the keys of the OPERATORS dict
OPERATORS == {"+", "-", "*", "/"}

\* OPERATORS[op](a, b), for a call that returns
ApplyOp(op, a, b) ==
    CASE op = "+" -> Add(a, b)
      [] op = "-" -> Sub(a, b)
      [] op = "*" -> Mul(a, b)
      [] op = "/" -> Quot(a, b)

\* RaisesZeroDivision with a fault: only 0.0 is taken for zero, not -0.0
RaisesZeroDivision_PositiveOnly(op, b) == op = "/" /\ b.n = 0 /\ b.s = 1

\* operator.truediv raises ZeroDivisionError for a zero divisor of either sign
RaisesZeroDivision(op, b) == op = "/" /\ b.n = 0

\* PRECEDENCE with a fault: every operator binds alike
PRECEDENCE_Flat == [op \in OPERATORS |-> 1]

PRECEDENCE == [op \in OPERATORS |-> IF op \in {"+", "-"} THEN 1 ELSE 2]

\* token in cls.OPERATORS, for a token of the token list
InOperators(token) == Len(token) = 1 /\ token[1] \in OPERATORS

\* remove_spaces with a fault: the spaces are kept
remove_spaces_Kept(expr) == expr

\* expression.replace(" ", "")
remove_spaces(expr) == SelectSeq(expr, LAMBDA c : c # " ")

\* the '-' of line 63 that joins the number being read
IsUnaryMinus(char, toks) ==
    char = "-" /\ (toks = <<>> \/ InOperators(toks[Len(toks)]))

\* one iteration of the loop of _tokenize
tokenize_char(st, char) ==
    IF st.error # NoResult THEN st
    ELSE IF isdigit(char) \/ char = "."
    THEN [st EXCEPT !.current_number = Append(@, char)]
    ELSE IF char \in OPERATORS
    THEN IF IsUnaryMinus(char, st.tokens)
         THEN [st EXCEPT !.current_number = Append(@, char)]
         ELSE [st EXCEPT
                 !.tokens = (IF st.current_number # <<>>
                             THEN Append(@, st.current_number) ELSE @) \o <<(<<char>>)>>,
                 !.current_number = <<>>]
    ELSE [st EXCEPT !.error = Raised("ValueError", <<"Invalid character: ", char>>)]

RECURSIVE tokenize_loop(_, _)
tokenize_loop(st, expr) ==
    IF expr = <<>> THEN st
    ELSE tokenize_loop(tokenize_char(st, Head(expr)), Tail(expr))

\* _tokenize: [tokens, error]; error is NoResult when the list is returned
tokenize(expr) ==
    LET st == tokenize_loop([tokens |-> <<>>, current_number |-> <<>>, error |-> NoResult],
                            remove_spaces(expr))
    IN  [tokens |-> IF st.error # NoResult THEN <<>>
                    ELSE IF st.current_number # <<>>
                    THEN Append(st.tokens, st.current_number)
                    ELSE st.tokens,
         error |-> st.error]

\* _apply_operator with a fault: an operator short of operands is skipped
apply_operator_Lenient(st, op) ==
    LET output == st.output_queue
        n == Len(output)
    IN  IF n < 2
        THEN st
        ELSE IF RaisesZeroDivision(op, output[n])
        THEN [st EXCEPT !.error = Raised("ZeroDivisionError", <<"float division by zero">>)]
        ELSE [st EXCEPT !.output_queue =
                 Append(SubSeq(output, 1, n - 2), ApplyOp(op, output[n - 1], output[n]))]

\* _apply_operator, on the parser's state
apply_operator(st, op) ==
    LET output == st.output_queue
        n == Len(output)
    IN  IF n < 2
        THEN [st EXCEPT !.error = Raised("ValueError", <<"Invalid expression">>)]
        ELSE LET b == output[n]
                 a == output[n - 1]
             IN  IF RaisesZeroDivision(op, b)
                 THEN [st EXCEPT !.error = Raised("ZeroDivisionError", <<"float division by zero">>)]
                 ELSE [st EXCEPT !.output_queue =
                          Append(SubSeq(output, 1, n - 2), ApplyOp(op, a, b))]

\* the condition of the while loop of lines 87-89
ShouldPop(st, token) ==
    /\ st.operator_stack # <<>>
    /\ InOperators(st.operator_stack[Len(st.operator_stack)])
    /\ PRECEDENCE[st.operator_stack[Len(st.operator_stack)][1]] >= PRECEDENCE[token[1]]

pop_stack(st) ==
    [st EXCEPT !.operator_stack = SubSeq(@, 1, Len(@) - 1)]

\* the while loop of lines 87-90
RECURSIVE pop_while(_, _)
pop_while(st, token) ==
    IF st.error # NoResult THEN st
    ELSE IF ShouldPop(st, token)
    THEN pop_while(apply_operator(pop_stack(st),
                                  st.operator_stack[Len(st.operator_stack)][1]), token)
    ELSE st

\* one iteration of the for loop of _parse_expression
parse_token(st, token) ==
    IF st.error # NoResult THEN st
    ELSE IF ~InOperators(token)
    THEN LET f == to_float(token)
         IN  IF f.type = "return"
             THEN [st EXCEPT !.output_queue = Append(@, f.value)]
             ELSE [st EXCEPT !.error = f]
    ELSE LET popped == pop_while(st, token)
         IN  IF popped.error # NoResult THEN popped
             ELSE [popped EXCEPT !.operator_stack = Append(@, token)]

RECURSIVE parse_loop(_, _)
parse_loop(st, toks) ==
    IF toks = <<>> THEN st
    ELSE parse_loop(parse_token(st, Head(toks)), Tail(toks))

\* the while loop of lines 93-94
RECURSIVE drain(_)
drain(st) ==
    IF st.error # NoResult \/ st.operator_stack = <<>> THEN st
    ELSE drain(apply_operator(pop_stack(st),
                              st.operator_stack[Len(st.operator_stack)][1]))

\* _parse_expression
parse_expression(toks) ==
    LET st == drain(parse_loop([output_queue |-> <<>>, operator_stack |-> <<>>,
                                error |-> NoResult], toks))
    IN  IF st.error # NoResult THEN st.error
        ELSE IF Len(st.output_queue) # 1
        THEN Raised("ValueError", <<"Invalid expression">>)
        ELSE Returned(st.output_queue[1])

\* evaluate
evaluate(expr) ==
    LET t == tokenize(expr)
    IN  IF t.error # NoResult THEN t.error
        ELSE IF t.tokens = <<>> THEN Raised("ValueError", <<"Empty expression">>)
        ELSE parse_expression(t.tokens)

----------------------------------------------------------------------------
(* Calls of evaluate on every short argument *)

NumExtra(expr) == Cardinality({k \in 1..Len(expr) : expr[k] \in ExtraChars})

\* Calculator.__init__ and _setup_variables
InitCalculator ==
    /\ current_input = <<>>
    /\ history = <<>>
    /\ history_index = -1
    /\ display_text = <<"0">>
    /\ history_text = <<>>

\* no call of _format_result is under way
NoFormat ==
    /\ format_arg = NoValue
    /\ format_pc = "idle"
    /\ formatted = NoResult
    /\ reformatted = NoResult

\* no call of _parse_expression is under way
NoParse ==
    /\ output_queue = <<>>
    /\ operator_stack = <<>>
    /\ pos = 0
    /\ previous = "none"

\* evaluate is called on any string of at most MaxLen characters, at most
\* MaxExtra of them outside [0-9.+-*/]
InitEval ==
    /\ NoParse
    /\ \E n \in 0..MaxLen : expression \in [1..n -> CoreChars \cup ExtraChars]
    /\ NumExtra(expression) <= MaxExtra
    /\ pc = "evaluate"
    /\ tokens = <<>>
    /\ result = NoResult
    /\ InitCalculator
    /\ NoFormat

\* line 48, when _tokenize returns
TokenizeReturns ==
    /\ pc = "evaluate"
    /\ tokenize(expression).error = NoResult
    /\ tokens' = tokenize(expression).tokens
    /\ pc' = "tokenized"
    /\ UNCHANGED <<expression, result, parseVars, uiVars, formatVars>>

\* line 48, when _tokenize raises
TokenizeRaises ==
    /\ pc = "evaluate"
    /\ tokenize(expression).error # NoResult
    /\ result' = tokenize(expression).error
    /\ pc' = "raised"
    /\ UNCHANGED <<expression, tokens, parseVars, uiVars, formatVars>>

\* lines 49-50
EmptyRaises ==
    /\ pc = "tokenized"
    /\ tokens = <<>>
    /\ result' = Raised("ValueError", <<"Empty expression">>)
    /\ pc' = "raised"
    /\ UNCHANGED <<expression, tokens, parseVars, uiVars, formatVars>>

\* NewFrame with a fault: the lists of the call before are used again
NewFrame_Stale == [output_queue |-> output_queue, operator_stack |-> operator_stack]

\* lines 80-81
NewFrame == [output_queue |-> <<>>, operator_stack |-> <<>>]

\* line 51 and lines 80-81: _parse_expression is entered
EnterParse ==
    /\ pc = "tokenized"
    /\ tokens # <<>>
    /\ output_queue' = NewFrame.output_queue
    /\ operator_stack' = NewFrame.operator_stack
    /\ pos' = 1
    /\ pc' = "parse"
    /\ UNCHANGED <<expression, tokens, result, previous, uiVars, formatVars>>

\* the parser's state, as the operators above take it
Frame == [output_queue |-> output_queue, operator_stack |-> operator_stack,
          error |-> NoResult]

\* the step taken to the parser's state st
ParserStep(st) ==
    /\ output_queue' = st.output_queue
    /\ operator_stack' = st.operator_stack
    /\ IF st.error # NoResult
       THEN result' = st.error /\ pc' = "raised"
       ELSE result' = result /\ pc' = "parse"

\* one iteration of the for loop (lines 83-91)
ParseToken ==
    /\ pc = "parse"
    /\ pos <= Len(tokens)
    /\ ParserStep(parse_token(Frame, tokens[pos]))
    /\ pos' = pos + 1
    /\ UNCHANGED <<expression, tokens, previous, uiVars, formatVars>>

\* the while loop after the for loop (lines 93-94)
Drain ==
    /\ pc = "parse"
    /\ pos > Len(tokens)
    /\ operator_stack # <<>>
    /\ ParserStep(drain(Frame))
    /\ UNCHANGED <<expression, tokens, pos, previous, uiVars, formatVars>>

\* lines 96-99
ParseEnds ==
    /\ pc = "parse"
    /\ pos > Len(tokens)
    /\ operator_stack = <<>>
    /\ IF Len(output_queue) # 1
       THEN result' = Raised("ValueError", <<"Invalid expression">>) /\ pc' = "raised"
       ELSE result' = Returned(output_queue[1]) /\ pc' = "returned"
    /\ UNCHANGED <<expression, tokens, output_queue, operator_stack, pos, previous, uiVars, formatVars>>

NextEval ==
    \/ TokenizeReturns
    \/ TokenizeRaises
    \/ EmptyRaises
    \/ EnterParse
    \/ ParseToken
    \/ Drain
    \/ ParseEnds

SpecEval == InitEval /\ [][NextEval]_vars

\* the call has ended
Done == pc \in {"returned", "raised"}

TypeOKEval ==
    /\ pc \in {"idle", "evaluate", "tokenized", "parse", "returned", "raised"}
    /\ Done => result = evaluate(expression)

----------------------------------------------------------------------------
(* Vocabulary of the properties of evaluate *)

Part(i, j) == SubSeq(expression, i, j)
Positions == 1..Len(expression)

\* a literal of ASCII digits only
IsDigits(x) == x # <<>> /\ \A k \in 1..Len(x) : x[k] \in AsciiDigits

\* a non-negative decimal literal: ASCII digits with at most one '.'
IsLiteral(x) ==
    /\ \A k \in 1..Len(x) : x[k] \in AsciiDigits \cup {"."}
    /\ to_float(x).type = "return"

Val(x) == to_float(x).value

IsZero(v) == v.n = 0

\* the call returned a float equal to v
Returns(v) == pc = "returned" /\ result.type = "return" /\ NumEq(result.value, v)

\* the error kinds of the specification, read off the exception
ErrorKind(r) ==
    CASE r.type = "ZeroDivisionError" -> "DivisionByZero"
      [] r.type = "ValueError" /\ r.msg # <<>> /\ r.msg[1] = "Invalid character: "
           -> "InvalidCharacter"
      [] r.type = "ValueError" /\ r.msg = <<"Empty expression">> -> "EmptyExpression"
      [] r.type = "ValueError" /\ r.msg = <<"Invalid expression">> -> "MalformedExpression"
      [] OTHER -> "other"

\* C1: for literals a, b, c, "a-b-c" returns (a-b)-c and "a/b/c" returns
\* (a/b)/c (b and c not zero for the division)
C1_LeftAssociative ==
    Done => \A i, j \in Positions : \A op \in {"-", "/"} :
        ( /\ i < j
          /\ expression[i] = op /\ expression[j] = op
          /\ IsLiteral(Part(1, i - 1))
          /\ IsLiteral(Part(i + 1, j - 1))
          /\ IsLiteral(Part(j + 1, Len(expression)))
          /\ op = "/" => ( /\ ~IsZero(Val(Part(i + 1, j - 1)))
                           /\ ~IsZero(Val(Part(j + 1, Len(expression)))) ) )
        => Returns(ApplyOp(op, ApplyOp(op, Val(Part(1, i - 1)), Val(Part(i + 1, j - 1))),
                           Val(Part(j + 1, Len(expression)))))

\* C2: for non-negative literals a, b, c, "a+b*c" returns a+(b*c) and
\* "a*b+c" returns (a*b)+c
C2_Precedence ==
    Done => \A i, j \in Positions :
        ( /\ i < j
          /\ IsLiteral(Part(1, i - 1))
          /\ IsLiteral(Part(i + 1, j - 1))
          /\ IsLiteral(Part(j + 1, Len(expression))) )
        => LET a == Val(Part(1, i - 1))
               b == Val(Part(i + 1, j - 1))
               c == Val(Part(j + 1, Len(expression)))
           IN  /\ (expression[i] = "+" /\ expression[j] = "*") => Returns(Add(a, Mul(b, c)))
               /\ (expression[i] = "*" /\ expression[j] = "+") => Returns(Add(Mul(a, b), c))

\* C2 witness: "2+2*8" has returned 18
C2_Witness ==
    /\ expression = <<"2", "+", "2", "*", "8">>
    /\ Returns(Float(1, 18, 1))

\* C3: for digit-only a and b, the tokens of "a-b" are a, '-', b
C3_BinaryMinusTokens ==
    pc = "tokenized" => \A i \in Positions :
        ( /\ expression[i] = "-"
          /\ IsDigits(Part(1, i - 1))
          /\ IsDigits(Part(i + 1, Len(expression))) )
        => tokens = <<Part(1, i - 1), <<"-">>, Part(i + 1, Len(expression))>>

\* C4: a '-' at the start or right after one of + - * / is the sign of the
\* literal that follows: for digit-only a and b, "-a+b" returns b-a, "a*-b"
\* returns -(a*b), "-a*-b" returns a*b, and "a<op>-b" returns a <op> (-b)
\* for each of the four operators (b not zero for the division)
C4_UnaryMinus ==
    Done => \A i \in Positions :
        LET n == Len(expression) IN
        /\ ( /\ expression[1] = "-" /\ expression[i] = "+"
             /\ IsDigits(Part(2, i - 1)) /\ IsDigits(Part(i + 1, n)) )
           => Returns(Sub(Val(Part(i + 1, n)), Val(Part(2, i - 1))))
        /\ ( /\ expression[1] = "-" /\ expression[i] = "*"
             /\ i < n /\ expression[i + 1] = "-"
             /\ IsDigits(Part(2, i - 1)) /\ IsDigits(Part(i + 2, n)) )
           => Returns(Mul(Val(Part(2, i - 1)), Val(Part(i + 2, n))))
        /\ ( /\ expression[i] \in OPERATORS
             /\ i < n /\ expression[i + 1] = "-"
             /\ IsDigits(Part(1, i - 1)) /\ IsDigits(Part(i + 2, n))
             /\ expression[i] = "/" => ~IsZero(Val(Part(i + 2, n))) )
           => Returns(ApplyOp(expression[i], Val(Part(1, i - 1)), Neg(Val(Part(i + 2, n)))))

\* the token list is Number, Operator, Number, ..., Number
Alternating(toks) ==
    /\ Len(toks) % 2 = 1
    /\ \A k \in 1..Len(toks) :
          IF k % 2 = 1
          THEN ~InOperators(toks[k]) /\ to_float(toks[k]).type = "return"
          ELSE InOperators(toks[k])

\* C5: an input over digits, '.', + - * / whose token list is not
\* Number, Operator, ..., Number makes evaluate fail: no float is returned
C5_MalformedFails ==
    ( /\ Done
      /\ \A k \in Positions : expression[k] \in CoreChars
      /\ ~Alternating(tokens) )
    => pc = "raised" /\ result.type # "return"

\* C5 witness: "2+*8" has raised "Invalid expression"
C5_Witness ==
    /\ expression = <<"2", "+", "*", "8">>
    /\ pc = "raised"
    /\ ErrorKind(result) = "MalformedExpression"

\* a position is named by its decimal digits, counted from 0 or from 1
NamesPosition(msg, expr) ==
    \E k \in 1..Len(msg), i \in 0..Len(expr) : msg[k] = ToString(i)

\* C7: once spaces are removed, an input with a character outside
\* [0-9.+-*/] makes _tokenize raise InvalidCharacter, naming the character
\* and its position, and no token list is returned
C7_InvalidCharacter ==
    ( /\ pc # "evaluate"
      /\ \E k \in Positions : expression[k] \notin CoreChars \cup {" "} )
    => /\ pc = "raised"
       /\ ErrorKind(result) = "InvalidCharacter"
       /\ \E k \in Positions :
             /\ expression[k] \notin CoreChars \cup {" "}
             /\ result.msg[2] = expression[k]
       /\ NamesPosition(result.msg, expression)

Whitespace == {" ", "\t"}

\* C9 as stated: an input that is empty or only whitespace tokenizes to the
\* empty list without error, and evaluate raises EmptyExpression
C9_WhitespaceIsEmpty ==
    (\A k \in Positions : expression[k] \in Whitespace)
    => /\ pc # "evaluate" => tokens = <<>>
       /\ Done => pc = "raised" /\ ErrorKind(result) = "EmptyExpression"

\* C9 as amended: an input that is empty or only space characters tokenizes
\* to the empty list without error (the call goes on to line 49), and
\* evaluate raises EmptyExpression
C9_SpacesAreEmpty ==
    (\A k \in Positions : expression[k] = " ")
    => /\ pc # "evaluate" => tokens = <<>>
       /\ Done => pc = "raised" /\ ErrorKind(result) = "EmptyExpression"

\* C9 witness: " " has raised "Empty expression"
C9_Witness ==
    /\ expression = <<" ">>
    /\ tokens = <<>>
    /\ pc = "raised"
    /\ result = Raised("ValueError", <<"Empty expression">>)

\* a character outside [0-9.+-*/] and the space
Invalid(char) == char \notin AsciiDigits \cup {".", "+", "-", "*", "/", " "}

\* C11: an input with an invalid character anywhere makes evaluate fail with
\* InvalidCharacter, whatever comes before it (a division by zero, a
\* malformed part): tokenization ends before any arithmetic is done
C11_TokenizeFirst ==
    (Done /\ \E k \in Positions : Invalid(expression[k]))
    => pc = "raised" /\ ErrorKind(result) = "InvalidCharacter"

\* the part of C11 that does not rest on which characters are invalid: when
\* _tokenize rejects a character, evaluate raises InvalidCharacter and
\* _parse_expression is never entered
RejectedFirst ==
    (pc # "evaluate" /\ tokenize(expression).error # NoResult)
    => /\ pc = "raised"
       /\ ErrorKind(result) = "InvalidCharacter"
       /\ output_queue = <<>> /\ operator_stack = <<>> /\ pos = 0

\* "2/0\t": the tab is rejected although 2/0 comes before it
RejectedFirst_Witness ==
    /\ expression = <<"2", "/", "0", "\t">>
    /\ pc = "raised"
    /\ ErrorKind(result) = "InvalidCharacter"

ErrorKinds == {"InvalidCharacter", "EmptyExpression", "MalformedExpression",
               "DivisionByZero"}

\* C12: every call of evaluate ends in one float or in one of the four error
\* kinds, also for a run of digits and '.' that is no decimal literal
\* ("1.2.3", ".")
C12_EnumeratedOutcomes ==
    Done => \/ pc = "returned" /\ result.type = "return"
            \/ pc = "raised" /\ ErrorKind(result) \in ErrorKinds

\* the run of '-' that starts at position i is in the place of a unary minus
\* (at the start or right after an operator), is two or more long, and is
\* followed by a digit
RepeatedMinusAt(i) ==
    /\ i = 1 \/ expression[i - 1] \in OPERATORS
    /\ \E j \in Positions :
          /\ j >= i + 2
          /\ \A m \in i..(j - 1) : expression[m] = "-"
          /\ expression[j] \in AsciiDigits

\* C13: a repeated unary minus before a literal makes evaluate fail: "--n"
\* returns neither n nor -n, and no input with such a run returns a float
C13_RepeatedMinusFails ==
    (Done /\ \E i \in Positions : RepeatedMinusAt(i))
    => pc = "raised" /\ result.type # "return"

\* C13 witness: "--2" has raised
C13_Witness ==
    /\ expression = <<"-", "-", "2">>
    /\ pc = "raised"
    /\ result.type = "ValueError"

----------------------------------------------------------------------------
(* Calls of evaluate one after another *)

InitCalls ==
    /\ expression = <<>>
    /\ pc = "idle"
    /\ tokens = <<>>
    /\ result = NoResult
    /\ NoParse
    /\ InitCalculator
    /\ NoFormat

\* the caller calls evaluate(expr), at first or after a call has ended; the
\* lists of the call before are garbage that the new call never reads
Call ==
    /\ pc \in {"idle", "returned", "raised"}
    /\ \E n \in 0..MaxCallLen : \E expr \in [1..n -> CallChars] : expression' = expr
    /\ pc' = "evaluate"
    /\ tokens' = <<>>
    /\ result' = NoResult
    /\ previous' = result.type
    /\ UNCHANGED <<output_queue, operator_stack, pos, uiVars, formatVars>>

NextCalls == Call \/ NextEval

SpecCalls == InitCalls /\ [][NextCalls]_vars

\* the next step of the parser applies the operator on top of the stack:
\* an operator token meets a stacked operator that binds as tightly as it
\* does (line 90), or the for loop is over (line 94)
AppliesTop ==
    /\ pc = "parse"
    /\ operator_stack # <<>>
    /\ \/ pos > Len(tokens)
       \/ pos <= Len(tokens) /\ InOperators(tokens[pos]) /\ ShouldPop(Frame, tokens[pos])

\* ... and it is a '/' with two operands of which the right one is zero
AppliesDivisionByZero ==
    /\ AppliesTop
    /\ operator_stack[Len(operator_stack)] = <<"/">>
    /\ Len(output_queue) >= 2
    /\ IsZero(output_queue[Len(output_queue)])

\* C6: when evaluate applies a '/' whose right operand is zero (of either
\* sign), that step raises the division-by-zero error: no float is returned
C6_DivisionByZero ==
    [][AppliesDivisionByZero => (pc' = "raised" /\ ErrorKind(result') = "DivisionByZero")]_vars

\* C6 witness: "2/-0" has raised ZeroDivisionError
C6_Witness ==
    /\ expression = <<"2", "/", "-", "0">>
    /\ tokens = <<(<<"2">>), (<<"/">>), (<<"-", "0">>)>>
    /\ pc = "raised"
    /\ result = Raised("ZeroDivisionError", <<"float division by zero">>)

\* C10: in every sequence of calls, the outcome of a call is the outcome
\* of evaluate on its argument alone, whatever calls came before
C10_Stateless ==
    Done => result = evaluate(expression)

\* C10 witness: a call has returned a float right after a call that raised
C10_Witness ==
    /\ pc = "returned"
    /\ previous \in {"ValueError", "ZeroDivisionError"}
    /\ result.type = "return"

----------------------------------------------------------------------------
(* Calculator *)

\* the keys of SYMBOL_MAP, and the other texts the buttons send
DIVIDE == <<"U+00C3", "U+00B7">>
TIMES == <<"U+00C3", "U+2014">>
MINUS == <<"U+00E2", "U+02C6", "U+2019">>
PLUS == <<"+">>
POINT == <<".">>

\* the digit key pressed: with '0' alone the keys give every outcome of
\* evaluate ("0+0", "0+", "0" DIVIDE "0", and a glyph cut by the backspace)
KeyDigits == {"0"}

\* the texts that _on_button_click passes on to _append_to_input
AppendKeys == {<<c>> : c \in KeyDigits} \cup {POINT, PLUS, DIVIDE, TIMES, MINUS}

\* pat occurs in text at position k
OccursAt(pat, text, k) ==
    /\ k + Len(pat) - 1 <= Len(text)
    /\ SubSeq(text, k, k + Len(pat) - 1) = pat

\* pat in text, for strings
Contains(text, pat) == \E k \in 1..(Len(text) + 1) : OccursAt(pat, text, k)

\* str.replace(pat, rep), pat not empty
RECURSIVE replace(_, _, _)
replace(text, pat, rep) ==
    IF text = <<>> THEN <<>>
    ELSE IF OccursAt(pat, text, 1)
    THEN rep \o replace(SubSeq(text, Len(pat) + 1, Len(text)), pat, rep)
    ELSE <<Head(text)>> \o replace(Tail(text), pat, rep)

RECURSIVE NatToDigits(_)
NatToDigits(n) ==
    IF n < 10 THEN <<DigitChars[n + 1]>>
    ELSE Append(NatToDigits(n \div 10), DigitChars[(n % 10) + 1])

\* the decimals of r/d, r < d, for a fraction that ends
RECURSIVE FractionDigits(_, _)
FractionDigits(r, d) ==
    IF r = 0 THEN <<>>
    ELSE <<DigitChars[((r * 10) \div d) + 1]>> \o FractionDigits((r * 10) % d, d)

\* the significant digits of "{:.10g}"
SignificantDigits == 10

\* str() and "{:.10g}" are modelled for the floats whose shortest decimal
\* form is known and short: not "unknown", at most MaxFraction decimals,
\* and no more digits than "{:.10g}" prints
ReprKnown(v) ==
    /\ v.rep # "unknown"
    /\ v.d # 0
    /\ Pow10(MaxFraction) % v.d = 0
    /\ Len(NatToDigits(v.n \div v.d)) + MaxFraction <= SignificantDigits

\* str(result), result a float
str_float(v) ==
    (IF v.s = -1 THEN <<"-">> ELSE <<>>)
    \o NatToDigits(v.n \div v.d) \o <<".">>
    \o (IF v.n % v.d = 0 THEN <<"0">> ELSE FractionDigits(v.n % v.d, v.d))

\* _format_result
format_result(v) ==
    IF v.d = 1
    THEN (IF v.s = -1 /\ v.n # 0 THEN <<"-">> ELSE <<>>) \o NatToDigits(v.n)
    ELSE (IF v.s = -1 THEN <<"-">> ELSE <<>>)
         \o NatToDigits(v.n \div v.d) \o <<".">> \o FractionDigits(v.n % v.d, v.d)

\* a call that returns a string
ReturnedText(text) == [type |-> "return", msg |-> text, value |-> NoValue]

\* int(result) on line 395: the exception it raises for inf and nan
int_raises(v) ==
    IF v.d # 0 THEN NoResult
    ELSE IF v.n = 0
    THEN Raised("ValueError", <<"cannot convert float NaN to integer">>)
    ELSE Raised("OverflowError", <<"cannot convert float infinity to integer">>)

\* a call of _format_result: the string returned or the exception raised
format_result_call(v) ==
    IF int_raises(v) # NoResult THEN int_raises(v)
    ELSE ReturnedText(format_result(v))

\* _to_internal_format: the entries of SYMBOL_MAP in their order
to_internal_format(expr) ==
    replace(replace(replace(expr, DIVIDE, <<"/">>), TIMES, <<"*">>), MINUS, <<"-">>)

\* the Calculator's fields
UI == [current_input |-> current_input, display_text |-> display_text,
       history_text |-> history_text, history |-> history,
       history_index |-> history_index]

SetUI(ui) ==
    /\ current_input' = ui.current_input
    /\ display_text' = ui.display_text
    /\ history_text' = ui.history_text
    /\ history' = ui.history
    /\ history_index' = ui.history_index

ErrorText == <<"E", "r", "r", "o", "r">>
DivisionErrorText == ErrorText \o <<":", " ">> \o DIVIDE \o <<" ", "b", "y", " ", "0">>

\* _clear
clear(ui) ==
    [ui EXCEPT !.current_input = <<>>,
               !.display_text = <<"0">>,
               !.history_text = <<>>,
               !.history_index = -1]

\* _backspace
backspace(ui) ==
    LET rest == SubSeq(ui.current_input, 1, Len(ui.current_input) - 1)
    IN  [ui EXCEPT !.current_input = rest,
                   !.display_text = IF rest # <<>> THEN rest ELSE <<"0">>]

\* _toggle_sign
toggle_sign(ui) ==
    IF ui.current_input = <<>> \/ ui.current_input = <<"0">> THEN ui
    ELSE LET toggled == IF Head(ui.current_input) = "-"
                        THEN Tail(ui.current_input)
                        ELSE <<"-">> \o ui.current_input
         IN  [ui EXCEPT !.current_input = toggled, !.display_text = toggled]

\* the string "operators" of _append_to_input
operators == DIVIDE \o TIMES \o MINUS \o <<"+", ".">>

\* parts.split()[-1] if parts.split() else "", parts being current_input
\* with every character of the operator keys replaced by a space
RECURSIVE last_number(_)
last_number(text) ==
    LET blank(c) == Contains(DIVIDE \o TIMES \o MINUS \o PLUS, <<c>>)
    IN  IF text = <<>> THEN <<>>
        ELSE IF blank(text[Len(text)])
        THEN last_number(SubSeq(text, 1, Len(text) - 1))
        ELSE LET starts == {k \in 1..Len(text) :
                               \A m \in k..Len(text) : ~blank(text[m])}
                 first == CHOOSE k \in starts : \A m \in starts : k <= m
             IN  SubSeq(text, first, Len(text))

\* append_to_input with a fault: the test of lines 349-351 is left out
append_to_input_Unchecked(ui, char) ==
    IF char = POINT /\ Contains(last_number(ui.current_input), POINT)
    THEN ui
    ELSE [ui EXCEPT !.current_input = @ \o char,
                    !.display_text = ui.current_input \o char]

\* _append_to_input
append_to_input(ui, char) ==
    IF /\ Contains(operators, char)
       /\ ui.current_input # <<>>
       /\ Contains(operators, <<ui.current_input[Len(ui.current_input)]>>)
    THEN ui
    ELSE IF char = POINT /\ Contains(last_number(ui.current_input), POINT)
    THEN ui
    ELSE [ui EXCEPT !.current_input = @ \o char,
                    !.display_text = ui.current_input \o char]

\* navigate_history with a fault: the index moves, the entry is not shown
navigate_history_IndexOnly(ui, direction) ==
    IF ui.history = <<>> THEN ui
    ELSE LET new_index == ui.history_index + direction
         IN  IF 0 <= new_index /\ new_index < Len(ui.history)
             THEN [ui EXCEPT !.history_index = new_index]
             ELSE ui

\* _navigate_history
navigate_history(ui, direction) ==
    IF ui.history = <<>> THEN ui
    ELSE LET new_index == ui.history_index + direction
         IN  IF 0 <= new_index /\ new_index < Len(ui.history)
             \* history[new_index], the list counted from 0
             THEN [ui EXCEPT !.history_index = new_index,
                             !.current_input = ui.history[new_index + 1],
                             !.display_text = ui.history[new_index + 1]]
             ELSE ui

\* the float 100.0
Hundred == Float(1, 100, 1)

\* SafeExpressionEvaluator.evaluate(expression) / 100 in _percentage
percent_of(ui) ==
    LET r == evaluate(to_internal_format(ui.current_input))
    IN  IF r.type = "return" THEN Returned(Quot(r.value, Hundred)) ELSE r

\* percentage with a fault: a failed evaluation is shown as an error
percentage_ShowsError(ui) ==
    IF ui.current_input = <<>> THEN ui
    ELSE LET r == percent_of(ui)
         IN  IF r.type = "return"
             THEN [ui EXCEPT !.current_input = str_float(r.value),
                             !.display_text = format_result(r.value)]
             ELSE [ui EXCEPT !.current_input = <<>>, !.display_text = ErrorText]

\* _percentage
percentage(ui) ==
    IF ui.current_input = <<>> THEN ui
    ELSE LET r == percent_of(ui)
         IN  IF r.type = "return"
             THEN [ui EXCEPT !.current_input = str_float(r.value),
                             !.display_text = format_result(r.value)]
             ELSE ui

\* calculate_failed with a fault: the failed expression is put in the history
calculate_failed_Logged(ui, r) ==
    [ui EXCEPT !.display_text = IF r.type = "ZeroDivisionError"
                                THEN DivisionErrorText ELSE ErrorText,
               !.current_input = <<>>,
               !.history = Append(@, ui.current_input),
               !.history_index = Len(ui.history) + 1]

\* the except clauses of _calculate (lines 387-392)
calculate_failed(ui, r) ==
    [ui EXCEPT !.display_text = IF r.type = "ZeroDivisionError"
                                THEN DivisionErrorText ELSE ErrorText,
               !.current_input = <<>>]

\* _calculate
calculate(ui) ==
    IF ui.current_input = <<>> THEN ui
    ELSE LET r == evaluate(to_internal_format(ui.current_input))
         IN  IF r.type = "return"
             THEN [ui EXCEPT !.history_text = ui.current_input \o <<" ", "=">>,
                             !.history = Append(@, ui.current_input),
                             !.history_index = Len(ui.history) + 1,
                             !.current_input = str_float(r.value),
                             !.display_text = format_result(r.value)]
             ELSE calculate_failed(ui, r)

\* no call of evaluate is modelled step by step
NoCall ==
    /\ expression = <<>>
    /\ pc = "idle"
    /\ tokens = <<>>
    /\ result = NoResult
    /\ NoParse

Init == NoCall /\ InitCalculator /\ NoFormat

\* the characters held in the history
RECURSIVE HistoryChars(_)
HistoryChars(h) == IF h = <<>> THEN 0 ELSE Len(Head(h)) + HistoryChars(Tail(h))

\* the fields ui are within the bound MaxChars
Fits(ui) == Len(ui.current_input) + HistoryChars(ui.history) <= MaxChars

Clear ==
    /\ Fits(clear(UI))
    /\ SetUI(clear(UI))
    /\ UNCHANGED <<evalVars, parseVars, formatVars>>

Backspace ==
    /\ Fits(backspace(UI))
    /\ SetUI(backspace(UI))
    /\ UNCHANGED <<evalVars, parseVars, formatVars>>

ToggleSign ==
    /\ Fits(toggle_sign(UI))
    /\ SetUI(toggle_sign(UI))
    /\ UNCHANGED <<evalVars, parseVars, formatVars>>

\* the result of '%' is one that str() is modelled for
Percentage ==
    /\ percent_of(UI).type = "return" => ReprKnown(percent_of(UI).value)
    /\ Fits(percentage(UI))
    /\ SetUI(percentage(UI))
    /\ UNCHANGED <<evalVars, parseVars, formatVars>>

\* a key that leaves at most MaxInput characters in current_input
AppendToInput ==
    /\ \E char \in AppendKeys :
          /\ Len(current_input) + Len(char) <= MaxInput
          /\ Fits(append_to_input(UI, char))
          /\ SetUI(append_to_input(UI, char))
    /\ UNCHANGED <<evalVars, parseVars, formatVars>>

NavigateHistory ==
    /\ \E direction \in {-1, 1} :
          /\ Fits(navigate_history(UI, direction))
          /\ SetUI(navigate_history(UI, direction))
    /\ UNCHANGED <<evalVars, parseVars, formatVars>>

\* the evaluation of current_input, as _calculate makes it
Evaluated == evaluate(to_internal_format(current_input))

\* '=': the result is one that str() is modelled for
Calculate ==
    /\ (current_input # <<>> /\ Evaluated.type = "return") => ReprKnown(Evaluated.value)
    /\ Fits(calculate(UI))
    /\ SetUI(calculate(UI))
    /\ UNCHANGED <<evalVars, parseVars, formatVars>>

Next ==
    \/ Clear
    \/ Backspace
    \/ ToggleSign
    \/ Percentage
    \/ AppendToInput
    \/ NavigateHistory
    \/ Calculate

Spec == Init /\ [][Next]_vars

\* C8: '=' on a non-empty input whose evaluation fails shows "Error: ... by 0"
\* for a division by zero and "Error" for any other failure, empties
\* current_input, and leaves history and history_index as they were
C8_FailedCalculate ==
    [][(Calculate /\ current_input # <<>> /\ Evaluated.type # "return")
       => /\ display_text' = IF ErrorKind(Evaluated) = "DivisionByZero"
                             THEN DivisionErrorText ELSE ErrorText
          /\ current_input' = <<>>
          /\ history' = history
          /\ history_index' = history_index]_vars

\* C8 witness: '=' has failed with a history that is not empty
C8_Witness ==
    /\ display_text = DivisionErrorText
    /\ current_input = <<>>
    /\ history # <<>>
    /\ history_index = Len(history)

\* C14: '%' on an empty input, or on an input whose evaluation fails, leaves
\* current_input, the display, the history and history_index as they were
C14_PercentageIgnored ==
    [][(Percentage /\ (current_input = <<>> \/ Evaluated.type # "return"))
       => UNCHANGED uiVars]_vars

\* C14 witness: an input that divides by zero is on the display, as it was
\* typed, with an expression in the history
C14_Witness ==
    /\ current_input # <<>>
    /\ Evaluated.type = "ZeroDivisionError"
    /\ display_text = current_input
    /\ history # <<>>

\* the step is a '=' on an input that is not empty and evaluates to a float
CalculateSucceeds == Calculate /\ current_input # <<>> /\ Evaluated.type = "return"

\* C16: a '=' that succeeds appends one entry to the history, the
\* expression as the display showed it before, and sets history_index to
\* the new length; every other step leaves the history as it was
C16_HistoryAppendOnly ==
    [][/\ CalculateSucceeds => /\ history' = Append(history, display_text)
                               /\ history_index' = Len(history')
       /\ ~CalculateSucceeds => history' = history]_vars

\* what _calculate appends is current_input, whatever the display shows
HistoryAppendsInput ==
    [][/\ CalculateSucceeds => /\ history' = Append(history, current_input)
                               /\ history_index' = Len(history')
       /\ ~CalculateSucceeds => history' = history]_vars

\* a '=' has appended "0.0" while the display showed "0"
HistoryAppendsInput_Witness ==
    /\ history # <<>>
    /\ history[Len(history)] = <<"0", ".", "0">>
    /\ history_index = Len(history)

HistoryIndexInRange == -1 <= history_index /\ history_index <= Len(history)

\* C17: history_index stays within -1..len(history); Up and Down do nothing
\* when the history is empty or the new index is outside 0..len(history)-1,
\* and otherwise move history_index by one and put history[history_index]
\* in current_input and on the display
C17_HistoryIndex ==
    /\ []HistoryIndexInRange
    /\ [][\A direction \in {-1, 1} :
            (NavigateHistory /\ SetUI(navigate_history(UI, direction)))
            => LET new_index == history_index + direction
               IN  IF history = <<>> \/ new_index < 0 \/ new_index >= Len(history)
                   THEN UNCHANGED uiVars
                   ELSE /\ history_index' = new_index
                        /\ new_index + 1 \in DOMAIN history
                        /\ current_input' = history[new_index + 1]
                        /\ display_text' = history[new_index + 1]
                        /\ UNCHANGED <<history, history_text>>]_vars

\* C17 witness: Up, pressed twice after two results, shows the first entry
C17_Witness ==
    /\ Len(history) = 2
    /\ history_index = 0
    /\ current_input = history[1]
    /\ display_text = history[1]

----------------------------------------------------------------------------
(* _format_result on its own: the call that _calculate and _percentage     *)
(* make on the float they got from evaluate                                *)

\* the denominators of the arguments
Denominators == {1, 2, 4, 5, 8, 10}

\* the arguments: the floats s*n/d that str() is modelled for, and the
\* floats inf, -inf and nan, which evaluate returns for "9" * 309,
\* "-" + "9" * 309 and "9" * 309 + "+-" + "9" * 309
FormatArgs ==
    {v \in {Float(s, n, d) : s \in {1, -1}, n \in 0..MaxNumerator, d \in Denominators} :
        ReprKnown(v)}
    \cup {Infinity(1), Infinity(-1), NaN}

InitFormat ==
    /\ NoCall
    /\ InitCalculator
    /\ format_arg \in FormatArgs
    /\ format_pc = "call"
    /\ formatted = NoResult
    /\ reformatted = NoResult

\* _format_result returns
FormatReturns ==
    /\ format_pc = "call"
    /\ format_result_call(format_arg).type = "return"
    /\ formatted' = format_result_call(format_arg)
    /\ format_pc' = "returned"
    /\ UNCHANGED <<format_arg, reformatted, evalVars, parseVars, uiVars>>

\* int(result) raises on line 395
FormatRaises ==
    /\ format_pc = "call"
    /\ format_result_call(format_arg).type # "return"
    /\ formatted' = format_result_call(format_arg)
    /\ format_pc' = "raised"
    /\ UNCHANGED <<format_arg, reformatted, evalVars, parseVars, uiVars>>

\* the string is parsed back by float() and the float is formatted again
Reformat ==
    /\ format_pc = "returned"
    /\ to_float(formatted.msg).type = "return"
    /\ reformatted' = format_result_call(to_float(formatted.msg).value)
    /\ format_pc' = "reformatted"
    /\ UNCHANGED <<format_arg, formatted, evalVars, parseVars, uiVars>>

NextFormat ==
    \/ FormatReturns
    \/ FormatRaises
    \/ Reformat

SpecFormat == InitFormat /\ [][NextFormat]_vars

\* the float is an integer: finite and equal to its truncation
IntegerValued(v) == v.d = 1

\* text is the decimal digits of the integer v, after a '-' or not, a '-'
\* only for a negative v
IntegerDigits(text, v) ==
    /\ text # <<>>
    /\ LET body == IF Head(text) = "-" THEN Tail(text) ELSE text
       IN  /\ body = NatToDigits(v.n)
           /\ \A k \in 1..Len(body) : body[k] \in AsciiDigits
    /\ Head(text) = "-" => v.s = -1

\* C15: _format_result never fails; for an integer-valued float it returns
\* the decimal digits of the integer, after a '-' or not, with no '.'; and
\* formatting the float parsed back from that string gives the same string
C15_FormatInteger ==
    /\ format_pc # "raised"
    /\ (format_pc \in {"returned", "reformatted"} /\ IntegerValued(format_arg))
       => IntegerDigits(formatted.msg, format_arg)
    /\ (format_pc = "reformatted" /\ IntegerValued(format_arg))
       => reformatted = formatted

\* C15 for the floats that are numbers: every call returns, and the
\* integers are printed and read back as claimed
FormatIntegerFinite ==
    format_arg.d # 0
    => /\ format_pc # "raised"
       /\ (format_pc \in {"returned", "reformatted"} /\ IntegerValued(format_arg))
          => IntegerDigits(formatted.msg, format_arg)
       /\ (format_pc = "reformatted" /\ IntegerValued(format_arg))
          => reformatted = formatted

\* -4.0 has been formatted as "-4", read back and formatted again
FormatIntegerFinite_Witness ==
    /\ format_arg = Float(-1, 4, 1)
    /\ format_pc = "reformatted"
    /\ formatted = ReturnedText(<<"-", "4">>)
    /\ reformatted = formatted

----------------------------------------------------------------------------
(* The keys that write current_input: digits, '.', the operator glyphs,    *)
(* backspace and clear                                                     *)

NextKeys ==
    \/ Clear
    \/ Backspace
    \/ AppendToInput

SpecKeys == Init /\ [][NextKeys]_vars

\* the operator glyphs and the point, each the string its key sends
Glyphs == {DIVIDE, TIMES, MINUS, PLUS, POINT}

\* two of the glyphs stand side by side in text
AdjacentGlyphs(text) ==
    \E g \in Glyphs, h \in Glyphs : \E k \in 1..Len(text) :
        OccursAt(g, text, k) /\ OccursAt(h, text, k + Len(g))

\* a run of digits and '.' in text holds more than one '.'
TwoPoints(text) ==
    \E i \in 1..Len(text), j \in 1..Len(text) :
        /\ i < j
        /\ text[i] = "." /\ text[j] = "."
        /\ \A m \in i..j : text[m] \in AsciiDigits \cup {"."}

WellFormedInput(text) == ~AdjacentGlyphs(text) /\ ~TwoPoints(text)

\* C18: from the empty input, after any digits, '.', operator glyphs,
\* backspaces and clears, current_input has no two glyphs of DIVIDE, TIMES,
\* MINUS, '+', '.' side by side and no run of digits and '.' with more than
\* one '.'; a key that would break either rule leaves current_input and the
\* display as they were
C18_InputWellFormed ==
    /\ []WellFormedInput(current_input)
    /\ [][\A char \in AppendKeys :
            ( /\ AppendToInput
              /\ SetUI(append_to_input(UI, char))
              /\ ~WellFormedInput(current_input \o char) )
            => UNCHANGED <<current_input, display_text>>]_vars

\* C18 witness: "0.0" has been typed, and a '.' or a glyph typed after
\* "0." was refused
C18_Witness ==
    /\ current_input = <<"0", ".", "0">>
    /\ display_text = current_input
    /\ ~WellFormedInput(current_input \o POINT)
    /\ append_to_input(UI, POINT) = UI

====
